---- MODULE Spec2Model ----
(***************************************************************************)
(* The AST node model and the cycle-safe graph serializer of core.js.      *)
(*                                                                         *)
(* The heap is the node graph: heap[i] is the object with identity i, a    *)
(* record of its constructor name and its own enumerable properties in     *)
(* insertion order (keys, vals).  A value is a reference to a heap object, *)
(* a primitive, an Ohm source node, or an array of values; arrays occur    *)
(* as field values only (the field shapes of the node constructors).       *)
(***************************************************************************)
EXTENDS Integers, Sequences, FiniteSets, TLC

VARIABLES
    heap,     \* the node graph, a sequence of objects; a reference is an index
    pc,       \* where the running operation stands
    tags,     \* the Map of the current inspect call: heap index -> tag, 0 = no entry
    stack,    \* the call stack of tag(): one frame per activation, the values it still has to visit
    out,      \* the lines yielded so far by lines()
    result,   \* the string returned by the last completed inspect call
    prev,     \* the string returned by the call before it
    calls,    \* number of inspect calls started
    made      \* the outcome of the last constructor call

vars == <<heap, pc, tags, stack, out, result, prev, calls, made>>

\* ---------------------------------------------------------------- bounds

NumObjs == 3
MaxSeqLen == 2
MaxCalls == 2
MaxNew == 2

\* ---------------------------------------------------------------- values

Ref(i) == [t |-> "ref", id |-> i]
Str(s) == [t |-> "str", s |-> s]
Num(n) == [t |-> "num", n |-> n]
Bool(b) == [t |-> "bool", b |-> b]
Undefined == [t |-> "undef"]
Null == [t |-> "null"]
Arr(es) == [t |-> "arr", elems |-> es]
\* An Ohm node: only its contents are ever read (Token.lexeme).
Source(c) == [t |-> "src", contents |-> c]

NoResult == "<none>"
NotMade == [cls |-> "", args |-> <<>>, threw |-> "", ref |-> 0]

\* ---------------------------------------------------------------- constructors

\* The parameter list of each constructor; each constructor assigns exactly
\* its parameters, in this order, as own properties of the new object.
Params(cls) ==
    CASE cls = "Program" -> <<"statements">>
      [] cls = "VariableDeclaration" -> <<"type", "variable", "initializer">>
      [] cls = "Conditional" -> <<"test", "consequent", "alternate">>
      [] cls = "If" -> <<"condition", "block", "elseifs", "elseStatement">>
      [] cls = "ElseIf" -> <<"condition", "block">>
      [] cls = "Else" -> <<"block">>
      [] cls = "FunctionDeclaration" -> <<"type", "id", "params", "block">>
      [] cls = "FuncParam" -> <<"type", "id">>
      [] cls = "Assignment" -> <<"target", "source">>
      [] cls = "WhileStatement" -> <<"test", "body">>
      [] cls = "ReturnStatement" -> <<"value">>
      [] cls = "PrintStatement" -> <<"argument">>
      [] cls = "Call" -> <<"callee", "args">>
      [] cls = "BreakStatement" -> <<>>
      [] cls = "Type" -> <<"typename">>
      [] cls = "CringeArray" -> <<"values">>
      [] cls = "BinaryExpression" -> <<"op", "left", "right">>
      [] cls = "UnaryExpression" -> <<"op", "operand">>
      [] cls = "SubscriptExpression" -> <<"array", "index">>
      [] cls = "MemberExpression" -> <<"object", "field">>
      [] cls = "Token" -> <<"category", "source">>
      [] cls = "Variable" -> <<"name">>
      [] cls = "Function" -> <<"name", "params", "type">>

\* new cls(...args): parameters are bound by position, a missing argument is
\* undefined and a surplus argument is dropped.
New(cls, args) ==
    [cls |-> cls,
     keys |-> Params(cls),
     vals |-> [i \in 1..Len(Params(cls)) |->
                  IF i <= Len(args) THEN args[i] ELSE Undefined]]

\* obj[key] = v for a key the object does not have yet (an annotation added
\* by a later phase, such as a token's value).
Attach(obj, key, v) ==
    [obj EXCEPT !.keys = Append(@, key), !.vals = Append(@, v)]

HasKey(obj, key) == \E i \in 1..Len(obj.keys) : obj.keys[i] = key

\* obj[key], undefined when the object has no such property
Get(obj, key) ==
    IF HasKey(obj, key)
    THEN obj.vals[CHOOSE i \in 1..Len(obj.keys) : obj.keys[i] = key]
    ELSE Undefined

\* ---------------------------------------------------------------- module load

\* The objects created when the module is evaluated: the five static Type
\* singletons, then the seven records of the standard library, each built by
\* the constructor call written in the source.
ModuleHeap ==
    << New("Type", <<Str("boolin")>>),
       New("Type", <<Str("pog")>>),
       New("Type", <<Str("dublin")>>),
       New("Type", <<Str("manyCars")>>),
       New("Type", <<Str("nada")>>),
       New("Variable", <<Str("π"), Bool(TRUE)>>),
       New("Function", <<Str("sqrt"), Num(1), Bool(TRUE)>>),
       New("Function", <<Str("sin"), Num(1), Bool(TRUE)>>),
       New("Function", <<Str("cos"), Num(1), Bool(TRUE)>>),
       New("Function", <<Str("exp"), Num(1), Bool(TRUE)>>),
       New("Function", <<Str("ln"), Num(1), Bool(TRUE)>>),
       New("Function", <<Str("hypot"), Num(2), Bool(TRUE)>> ) >>

BOOLEAN_T == Ref(1)
INT == Ref(2)
DOUBLE == Ref(3)
STRING_T == Ref(4)
VOID == Ref(5)

\* standardLibrary: name -> the record built for it (a heap index)
standardLibrary ==
    [name \in {"π", "sqrt", "sin", "cos", "exp", "ln", "hypot"} |->
        CASE name = "π" -> 6
          [] name = "sqrt" -> 7
          [] name = "sin" -> 8
          [] name = "cos" -> 9
          [] name = "exp" -> 10
          [] name = "ln" -> 11
          [] name = "hypot" -> 12]

\* `${v}` in a template literal, for a primitive v
Interpolate(v) ==
    CASE v.t = "str" -> v.s
      [] v.t = "num" -> ToString(v.n)
      [] v.t = "bool" -> (IF v.b THEN "true" ELSE "false")
      [] v.t = "null" -> "null"
      [] OTHER -> "undefined"

\* v instanceof Type, in heap h: Type and the classes that extend it
InstanceOfType(h, v) ==
    /\ v.t = "ref"
    /\ h[v.id].cls \in {"Type", "ArrayType", "FunctionType"}

\* The object new ArrayType(elementType) initialises when the guard holds:
\* super(`[${elementType.typename}]`) sets typename, then elementType is assigned.
ArrayTypeObject(h, elementType) ==
    [cls |-> "ArrayType",
     keys |-> <<"typename", "elementType">>,
     vals |-> << Str("[" \o Interpolate(Get(h[elementType.id], "typename")) \o "]"),
                 elementType >>]

\* ArrayType as it would be with super() called whatever the argument
ArrayTypeUnguarded(h, elementType) ==
    [threw |-> "",
     obj |-> [cls |-> "ArrayType",
              keys |-> <<"typename", "elementType">>,
              vals |-> << Str("[" \o (IF elementType.t = "ref"
                                      THEN Interpolate(Get(h[elementType.id], "typename"))
                                      ELSE "undefined") \o "]"),
                          elementType >>]]

\* new ArrayType(elementType).  A derived constructor that returns without
\* having called super() throws a ReferenceError, and no object results.
ArrayType(h, elementType) ==
    IF InstanceOfType(h, elementType)
    THEN [threw |-> "", obj |-> ArrayTypeObject(h, elementType)]
    ELSE [threw |-> "ReferenceError", obj |-> Null]

\* ---------------------------------------------------------------- the serializer

Root == Ref(1)

IsToken(i) == heap[i].cls = "Token"

\* Has as it would be with the Map keyed by the node's content instead of its identity
HasStructural(tg, v) ==
    /\ v.t = "ref"
    /\ \E j \in DOMAIN tg : tg[j] # 0 /\ heap[j] = heap[v.id]

\* tags.has(v): only an object with an entry in the Map
Has(tg, v) == v.t = "ref" /\ tg[v.id] # 0

\* tags.size
Size(tg) == Cardinality({i \in DOMAIN tg : tg[i] # 0})

\* const tags = new Map()
NewMap == [i \in DOMAIN heap |-> 0]

\* NextTag as it would be with a counter that outlives the call
NextTagGlobal(tg) == Size(tg) + calls

\* tags.size + 1, the tag the next node gets
NextTag(tg) == Size(tg) + 1

\* typeof v === "object" && v !== null
IsObject(v) == v.t = "ref"

\* Skip as it would be without the tags.has(node) test
SkipNonObjects(tg, v) == ~IsObject(v)

\* The first line of tag(): nothing to do for a node that has a tag already
\* and for a value that is no object.
Skip(tg, v) == Has(tg, v) \/ ~IsObject(v)

\* Flatten as it would be without the Array.isArray case
FlattenShallow(vs) == vs

RECURSIVE Flatten(_)
\* The values tag is called on for a node's properties, in order: a property
\* holding an array contributes its elements (child.forEach(tag)), any other
\* property itself.
Flatten(vs) ==
    IF vs = <<>> THEN <<>>
    ELSE (IF Head(vs).t = "arr" THEN Head(vs).elems ELSE <<Head(vs)>>)
         \o Flatten(Tail(vs))

\* Object.values(node)
Values(i) == heap[i].vals

\* Children as it would be with the properties visited last to first
ChildrenReversed(i) ==
    Flatten([k \in 1..Len(Values(i)) |-> Values(i)[Len(Values(i)) + 1 - k]])

Children(i) == Flatten(Values(i))

\* The deepest the engine lets tag() recurse before it throws a RangeError:
\* more than any descent that enters each object of the graph once.
StackLimit == Len(heap) + 2

Top == stack[Len(stack)]

\* The stack with the head of the top frame consumed
Consumed == [stack EXCEPT ![Len(stack)] = Tail(@)]

\* One activation of tag(node), node being the next value of the running frame.
tag ==
    /\ pc = "tagging"
    /\ stack # <<>>
    /\ Top # <<>>
    /\ LET node == Head(Top) IN
         IF Skip(tags, node)
         THEN /\ stack' = Consumed
              /\ UNCHANGED <<tags, pc>>
         ELSE IF Len(stack) >= StackLimit
         THEN \* Maximum call stack size exceeded: the exception leaves inspect
              /\ pc' = "RangeError"
              /\ stack' = <<>>
              /\ UNCHANGED tags
         ELSE IF IsToken(node.id)
         THEN \* Tokens are not tagged themselves, but their values might be
              /\ stack' = Append(Consumed, <<Get(heap[node.id], "value")>>)
              /\ UNCHANGED <<tags, pc>>
         ELSE \* Non-tokens are tagged
              /\ tags' = [tags EXCEPT ![node.id] = NextTag(tags)]
              /\ stack' = Append(Consumed, Children(node.id))
              /\ UNCHANGED pc
    /\ UNCHANGED <<heap, out, result, prev, calls, made>>

\* An activation that has visited all its values returns; when tag(this)
\* returns, lines() starts.
tagReturn ==
    /\ pc = "tagging"
    /\ stack # <<>>
    /\ Top = <<>>
    /\ stack' = SubSeq(stack, 1, Len(stack) - 1)
    /\ pc' = IF Len(stack) = 1 THEN "rendering" ELSE "tagging"
    /\ UNCHANGED <<heap, tags, out, result, prev, calls, made>>

RECURSIVE Join(_, _)
\* strs.join(sep)
Join(strs, sep) ==
    IF strs = <<>> THEN ""
    ELSE IF Len(strs) = 1 THEN strs[1]
    ELSE strs[1] \o sep \o Join(Tail(strs), sep)

\* lexeme as it would be reading the source node instead of its contents
lexemeOfSource(tok) == "[object Object]"

\* get lexeme(): this.source.contents
lexeme(tok) == Get(tok, "source").contents

\* util.inspect(e) of a value that is neither tagged, a token nor an array
Inspect(e) ==
    CASE e.t = "str" -> "'" \o e.s \o "'"
      [] e.t = "num" -> ToString(e.n)
      [] e.t = "bool" -> (IF e.b THEN "true" ELSE "false")
      [] e.t = "null" -> "null"
      [] e.t = "undef" -> "undefined"
      [] OTHER -> "{...}"

\* The text of a token in a field: (category,"lexeme")
TokenView(tok) ==
    "(" \o Interpolate(Get(tok, "category")) \o ",\"" \o lexeme(tok) \o "\")"

\* "#" and the tag of a tagged node
BackRef(e) == "#" \o ToString(tags[e.id])

RECURSIVE view(_)
view(e) ==
    IF Has(tags, e) THEN BackRef(e)
    ELSE IF e.t = "ref" /\ IsToken(e.id) THEN TokenView(heap[e.id])
    ELSE IF e.t = "arr"
    THEN "[" \o Join([i \in 1..Len(e.elems) |-> view(e.elems[i])], ",") \o "]"
    ELSE Inspect(e)

\* PadStart as it would be without padding
PadStartNone(id) == ToString(id)

\* String(id).padStart(4, " ")
PadStart(id) ==
    LET str == ToString(id) IN
    CASE Len(str) >= 4 -> str
      [] Len(str) = 3 -> " " \o str
      [] Len(str) = 2 -> "  " \o str
      [] OTHER -> "   " \o str

RECURSIVE SortByTag(_, _)
\* The nodes of the entries left in S, by ascending tag
SortByTag(tg, S) ==
    IF S = {} THEN <<>>
    ELSE LET first == CHOOSE i \in S :
                 \A j \in S : tg[i] < tg[j] \/ (tg[i] = tg[j] /\ i <= j)
         IN <<first>> \o SortByTag(tg, S \ {first})

\* [...tags.entries()].sort((a, b) => a[1] - b[1]), as the nodes in that order
Entries(tg) == SortByTag(tg, {i \in DOMAIN tg : tg[i] # 0})

\* Object.entries(node).map(([k, v]) => `${k}=${view(v)}`)
Props(i) ==
    [k \in 1..Len(heap[i].keys) |-> heap[i].keys[k] \o "=" \o view(heap[i].vals[k])]

\* The line yielded for a node with tag id
Line(i, id) ==
    PadStart(id) \o " | " \o heap[i].cls \o " " \o Join(Props(i), " ")

\* lines() yields the line of the next entry; each yielded line is kept with
\* the node it was made for and the views of its properties.
lines ==
    /\ pc = "rendering"
    /\ Len(out) < Size(tags)
    /\ LET node == Entries(tags)[Len(out) + 1] IN
         out' = Append(out, [node |-> node,
                             id |-> tags[node],
                             views |-> [k \in 1..Len(heap[node].vals) |->
                                           view(heap[node].vals[k])],
                             text |-> Line(node, tags[node])])
    /\ UNCHANGED <<heap, pc, tags, stack, result, prev, calls, made>>

\* return [...lines()].join("\n")
inspectReturn ==
    /\ pc = "rendering"
    /\ Len(out) = Size(tags)
    /\ result' = Join([i \in 1..Len(out) |-> out[i].text], "\n")
    /\ pc' = "returned"
    /\ UNCHANGED <<heap, tags, stack, out, prev, calls, made>>

\* What a call of Program.prototype[util.inspect.custom] does first: a fresh
\* Map, then tag(this).
Enter ==
    /\ heap[1].cls = "Program"
    /\ calls' = calls + 1
    /\ prev' = result
    /\ tags' = NewMap
    /\ stack' = << <<Root>> >>
    /\ out' = <<>>
    /\ pc' = "tagging"
    /\ UNCHANGED <<heap, result, made>>

\* The first call on the root
inspect ==
    /\ pc = "idle"
    /\ Enter

\* A further call on the same, unchanged graph
inspectAgain ==
    /\ pc = "returned"
    /\ calls < MaxCalls
    /\ Enter

\* ---------------------------------------------------------------- graphs

SeqsUpTo(S, n) == UNION {[1..k -> S] : k \in 0..n}

Refs == {Ref(i) : i \in 1..NumObjs}

\* What a single-valued field holds: a reference or a primitive
Vals == Refs \cup {Str("x")}

IdToken == New("Token", <<Str("id"), Source("x")>>)

NumberToken == New("Token", <<Str("number"), Source("5")>>)

\* A token, unresolved or with the value a later phase attached to it
TokenObjs == {IdToken} \cup {Attach(IdToken, "value", v) : v \in Refs}

RootObjs == {New("Program", <<Arr(es)>>) : es \in SeqsUpTo(Refs, MaxSeqLen)}

UnaryObjs == {New("ReturnStatement", <<v>>) : v \in Vals}

BinaryObjs == {New("Assignment", <<v, w>>) : v \in Refs, w \in Refs}

\* Graphs of any shape: a Program whose statements refer to NumObjs objects,
\* each a token or a one-field node, the first of them possibly a two-field
\* node, with sharing and cycles.
Heaps ==
    {[i \in 1..NumObjs |-> IF i = 1 THEN r ELSE IF i = 2 THEN a ELSE rest[i]] :
       r \in RootObjs,
       a \in TokenObjs \cup UnaryObjs \cup BinaryObjs,
       rest \in [3..NumObjs -> TokenObjs \cup UnaryObjs]}

\* Program([VariableDeclaration(type, Variable(name), tok)]) with type one of
\* the static Type singletons.
DeclHeap(type, name, tok) ==
    << New("Program", <<Arr(<<Ref(2)>>)>>),
       New("VariableDeclaration", <<Ref(3), Ref(4), Ref(5)>>),
       ModuleHeap[type.id],
       New("Variable", <<Str(name)>>),
       tok >>

\* The initializer of a declaration: a number token, or an identifier token,
\* unresolved or resolved to the declared variable, the declaration or itself.
DeclTokens ==
    {NumberToken, IdToken} \cup
    {Attach(IdToken, "value", Ref(i)) : i \in {2, 4, 5}}

DeclHeaps ==
    {DeclHeap(type, name, tok) :
       type \in {BOOLEAN_T, INT, DOUBLE, STRING_T, VOID},
       name \in {"x", "y"},
       tok \in DeclTokens}

Init ==
    /\ heap \in Heaps \cup DeclHeaps
    /\ pc = "idle"
    /\ tags = [i \in DOMAIN heap |-> 0]
    /\ stack = <<>>
    /\ out = <<>>
    /\ result = NoResult
    /\ prev = NoResult
    /\ calls = 0
    /\ made = NotMade

Next == inspect \/ tag \/ tagReturn \/ lines \/ inspectReturn

\* One call of the serializer on each graph
Spec == Init /\ [][Next]_vars

\* Repeated calls on the same graph
SpecTwice == Init /\ [][Next \/ inspectAgain]_vars

\* ---------------------------------------------------------------- construction

\* The classes whose constructor only assigns its parameters
PlainClasses ==
    {"Program", "VariableDeclaration", "Conditional", "If", "ElseIf", "Else",
     "FunctionDeclaration", "FuncParam", "Assignment", "WhileStatement",
     "ReturnStatement", "PrintStatement", "Call", "BreakStatement", "Type",
     "CringeArray", "BinaryExpression", "UnaryExpression",
     "SubscriptExpression", "MemberExpression", "Token", "Variable", "Function"}

\* Argument lists the callers pass: the symbol records as the standard library
\* and the analyzer build them, any other node with n distinct arguments.
ArgLists(cls) ==
    CASE cls = "Variable" ->
           {<<Str(n), Bool(m)>> : n \in {"x", "π"}, m \in BOOLEAN}
      [] cls = "Function" ->
           {<<Str(n), Num(c), Bool(b)>> : n \in {"f", "hypot"}, c \in {1, 2}, b \in BOOLEAN}
      [] cls = "Type" ->
           {<<Str(n)>> : n \in {"pog", "t"}}
      [] OTHER ->
           {[i \in 1..n |-> Num(i)] : n \in {Len(Params(cls)), Len(Params(cls)) + 1}}

\* What a caller may hand to new ArrayType(...)
ElementArgs(h) ==
    {Ref(i) : i \in 1..Len(h)} \cup {Num(5), Str("pog"), Undefined, Null}

Built == Len(heap) - Len(ModuleHeap)

\* new cls(...args) for a plain class
construct ==
    /\ pc = "idle"
    /\ Built < MaxNew
    /\ \E cls \in PlainClasses : \E args \in ArgLists(cls) :
         /\ heap' = Append(heap, New(cls, args))
         /\ made' = [cls |-> cls, args |-> args, threw |-> "", ref |-> Len(heap) + 1]
    /\ UNCHANGED <<pc, tags, stack, out, result, prev, calls>>

\* new ArrayType(elementType): the new object, or the error thrown at the caller
newArrayType ==
    /\ pc = "idle"
    /\ Built < MaxNew
    /\ \E elementType \in ElementArgs(heap) :
         LET r == ArrayType(heap, elementType) IN
           /\ heap' = IF r.threw = "" THEN Append(heap, r.obj) ELSE heap
           /\ made' = [cls |-> "ArrayType", args |-> <<elementType>>,
                       threw |-> r.threw,
                       ref |-> IF r.threw = "" THEN Len(heap) + 1 ELSE 0]
    /\ UNCHANGED <<pc, tags, stack, out, result, prev, calls>>

InitCtor ==
    /\ heap = ModuleHeap
    /\ pc = "idle"
    /\ tags = [i \in DOMAIN heap |-> 0]
    /\ stack = <<>>
    /\ out = <<>>
    /\ result = NoResult
    /\ prev = NoResult
    /\ calls = 0
    /\ made = NotMade

NextCtor == construct \/ newArrayType

\* The constructors, called on top of the objects the module creates when loaded
SpecCtor == InitCtor /\ [][NextCtor]_vars

\* ---------------------------------------------------------------- properties

Objects == DOMAIN heap

Tagged == {i \in Objects : tags[i] # 0}

\* tag(this) has returned
Discovered == pc \in {"rendering", "returned"}

RECURSIVE Resolve(_, _)
\* The nodes a value stands for in the graph: itself, the elements of an
\* array, or what the chain of values attached to a token ends in.
Resolve(v, fuel) ==
    CASE v.t = "arr" -> UNION {Resolve(v.elems[k], fuel) : k \in 1..Len(v.elems)}
      [] v.t = "ref" ->
           IF ~IsToken(v.id) THEN {v.id}
           ELSE IF fuel = 0 THEN {}
           ELSE Resolve(Get(heap[v.id], "value"), fuel - 1)
      [] OTHER -> {}

Succ(i) == UNION {Resolve(heap[i].vals[k], Len(heap)) : k \in 1..Len(heap[i].vals)}

RECURSIVE Closure(_)
Closure(S) ==
    LET T == S \cup UNION {Succ(i) : i \in S}
    IN IF T = S THEN S ELSE Closure(T)

\* The composite nodes and records reachable from the root
Reachable == Closure({1})

\* The tokens some reachable node or token refers to
RECURSIVE TokenClosure(_)
TokenClosure(S) ==
    LET direct(i) == {v.id : v \in {w \in
                         {heap[i].vals[k] : k \in 1..Len(heap[i].vals)} \cup
                         UNION {{heap[i].vals[k].elems[e] : e \in 1..Len(heap[i].vals[k].elems)} :
                                  k \in {n \in 1..Len(heap[i].vals) : heap[i].vals[n].t = "arr"}} :
                         w.t = "ref"}}
        T == S \cup {j \in UNION {direct(i) : i \in S \cup Reachable} : IsToken(j)}
    IN IF T = S THEN S ELSE TokenClosure(T)

\* Some reachable token's chain of attached values leads back to itself
TokenCycle ==
    \E t \in TokenClosure({}) :
       \E path \in SeqsUpTo(TokenClosure({}), Len(heap)) :
          /\ path # <<>>
          /\ path[1] = t
          /\ \A k \in 1..Len(path) :
               Get(heap[path[k]], "value") =
                   Ref(IF k < Len(path) THEN path[k + 1] ELSE t)

SeqRange(q) == {q[k] : k \in 1..Len(q)}

RECURSIVE Walk(_, _)
\* The order in which a depth-first walk first reaches each node: fields in
\* declared order, array elements in order, a token replaced by its value.
Walk(work, seen) ==
    IF work = <<>> THEN seen
    ELSE LET v == Head(work)
             rest == Tail(work)
         IN CASE v.t = "arr" -> Walk(v.elems \o rest, seen)
              [] v.t = "ref" /\ IsToken(v.id) ->
                   Walk(<<Get(heap[v.id], "value")>> \o rest, seen)
              [] v.t = "ref" /\ ~IsToken(v.id) /\ v.id \notin SeqRange(seen) ->
                   Walk(heap[v.id].vals \o rest, Append(seen, v.id))
              [] OTHER -> Walk(rest, seen)

\* The lines of the output that were made for node i
LinesOf(i) == {k \in 1..Len(out) : out[k].node = i}

\* C1: the discovery phase terminates on every finite graph, cycles included,
\* so that the call returns a result: tag() never exhausts the call stack.
C1_TagTerminates == pc # "RangeError"

\* The stack is exhausted only by a cycle of tokens, each the value of the one before
RangeErrorOnlyByTokenCycle == pc = "RangeError" => TokenCycle

\* C2: once discovery is over, the tags are exactly 1..N, N the number of
\* reachable composite and record nodes, in the order of first reach of the
\* depth-first walk; the root has tag 1.
C2_DiscoveryOrder ==
    Discovered =>
      LET order == Walk(<<Root>>, <<>>) IN
        /\ Len(order) = Cardinality(Reachable)
        /\ SeqRange(order) = Reachable
        /\ Tagged = Reachable
        /\ \A k \in 1..Len(order) : tags[order[k]] = k
        /\ {tags[i] : i \in Tagged} = 1..Cardinality(Reachable)
        /\ tags[1] = 1

\* C2 witness: three nodes numbered against their heap order, the second
\* statement reached before the first statement's sibling
C2_Witness ==
    /\ pc = "returned"
    /\ Len(heap) = 3
    /\ tags = <<1, 3, 2>>

\* The views that the references to node x must have in the output: "#" and x's tag
RefView(x) == "#" \o ToString(tags[x])

IsNodeRef(v) == v.t = "ref" /\ ~IsToken(v.id)

\* C3: a node referenced from several places has one tag and one line, every
\* place that refers to it shows "#" and that tag, and distinct nodes have
\* distinct tags even when they are structurally equal.
C3_SharingDeduplicated ==
    pc = "returned" =>
      /\ \A x \in Reachable :
           /\ tags[x] # 0
           /\ Cardinality(LinesOf(x)) = 1
      /\ \A x \in Reachable : \A y \in Reachable : x # y => tags[x] # tags[y]
      /\ \A k \in 1..Len(out) :
           LET vals == heap[out[k].node].vals IN
             /\ Len(out[k].views) = Len(vals)
             /\ \A f \in 1..Len(vals) :
                  /\ IsNodeRef(vals[f]) => out[k].views[f] = RefView(vals[f].id)
                  /\ (vals[f].t = "arr" /\ \A e \in 1..Len(vals[f].elems) : IsNodeRef(vals[f].elems[e]))
                       => out[k].views[f] =
                            "[" \o Join([e \in 1..Len(vals[f].elems) |-> RefView(vals[f].elems[e].id)], ",") \o "]"

\* C3 witness: node 3 is a statement, the value of node 2 and its own value,
\* and nodes 2 and 3 are structurally equal
C3_Witness ==
    /\ pc = "returned"
    /\ heap = << New("Program", <<Arr(<<Ref(2), Ref(3)>>)>>),
                 New("ReturnStatement", <<Ref(3)>>),
                 New("ReturnStatement", <<Ref(3)>>) >>
    /\ Len(out) = 3

\* C4: every reachable composite node or record, also one reached only through
\* a token's value, has exactly one line, and the lines come in ascending tag
\* order.
C4_NoNodeLost ==
    pc = "returned" =>
      /\ \A i \in Reachable : Cardinality(LinesOf(i)) = 1
      /\ \A k \in 1..Len(out) : out[k].node \in Reachable /\ out[k].id = tags[out[k].node]
      /\ \A k \in 1..(Len(out) - 1) : out[k].id < out[k + 1].id
      /\ result = Join([k \in 1..Len(out) |-> out[k].text], "\n")

\* C4 witness: node 3 is reachable only as the value of token 2
C4_Witness ==
    /\ pc = "returned"
    /\ Len(heap) = 3
    /\ heap[1].vals = <<Arr(<<Ref(2)>>)>>
    /\ IsToken(2) /\ Get(heap[2], "value") = Ref(3)
    /\ ~IsToken(3)
    /\ LinesOf(3) # {}

\* C5: a token never has a tag, whatever the graph and the point of the
\* traversal, and a token without a value shows in a field as
\* (category,"raw text").
C5_TokenTransparency ==
    /\ \A i \in Objects : IsToken(i) => tags[i] = 0
    /\ \A k \in 1..Len(out) :
         LET vals == heap[out[k].node].vals IN
           \A f \in 1..Len(vals) :
              (vals[f].t = "ref" /\ IsToken(vals[f].id) /\ ~HasKey(heap[vals[f].id], "value"))
                => LET tok == heap[vals[f].id] IN
                     out[k].views[f] =
                        "(" \o Get(tok, "category").s \o ",\"" \o Get(tok, "source").contents \o "\")"

\* C5 witness: the initializer of a declaration is an unresolved identifier token
C5_Witness ==
    /\ pc = "returned"
    /\ heap \in DeclHeaps
    /\ heap[5] = IdToken
    /\ out[2].views[3] = "(id,\"x\")"

\* C6: new ArrayType(x) with x no Type throws at the caller and leaves no
\* ArrayType behind; with x a Type it yields an ArrayType named "[" x's
\* typename "]" that holds x.
C6_ArrayTypeGuard ==
    /\ made.cls = "ArrayType" =>
         LET x == made.args[1] IN
           IF x.t = "ref" /\ heap[x.id].cls \in {"Type", "ArrayType", "FunctionType"}
           THEN /\ made.threw = ""
                /\ made.ref = Len(heap)
                /\ heap[made.ref].cls = "ArrayType"
                /\ Get(heap[made.ref], "typename") =
                       Str("[" \o Get(heap[x.id], "typename").s \o "]")
                /\ Get(heap[made.ref], "elementType") = x
           ELSE /\ made.threw # ""
                /\ made.ref = 0
    /\ \A i \in Objects :
         heap[i].cls = "ArrayType" =>
           /\ heap[i].keys = <<"typename", "elementType">>
           /\ Get(heap[i], "typename").t = "str"
           /\ Get(heap[i], "elementType").t = "ref"
           /\ heap[Get(heap[i], "elementType").id].cls \in {"Type", "ArrayType", "FunctionType"}

\* C6 witness: [pog] was built, then an ArrayType of a non-Type was refused
C6_Witness ==
    /\ made.cls = "ArrayType"
    /\ made.args[1].t # "ref"
    /\ made.threw = "ReferenceError"
    /\ \E i \in Objects :
         heap[i].cls = "ArrayType" /\ Get(heap[i], "typename") = Str("[pog]")

\* The graph of the end-to-end example
ExampleHeap == DeclHeap(INT, "x", NumberToken)

\* C7 as stated: the example yields exactly two lines, Program with tag 1 and
\* VariableDeclaration with tag 2, the initializer shown as (number,"5").
C7_TwoTaggedLines ==
    (pc = "returned" /\ heap = ExampleHeap) =>
      /\ Len(out) = 2
      /\ out[1].id = 1 /\ heap[out[1].node].cls = "Program"
      /\ out[2].id = 2 /\ heap[out[2].node].cls = "VariableDeclaration"
      /\ out[2].views[3] = "(number,\"5\")"

\* C7 amended: the example yields exactly four lines, Program with tag 1,
\* VariableDeclaration with tag 2, the Type with tag 3 and the Variable with
\* tag 4, the initializer shown as (number,"5").
C7_FourTaggedLines ==
    (pc = "returned" /\ heap = ExampleHeap) =>
      /\ Len(out) = 4
      /\ out[1].text = "   1 | Program statements=[#2]"
      /\ out[2].text =
           "   2 | VariableDeclaration type=#3 variable=#4 initializer=(number,\"5\")"
      /\ out[3].text = "   3 | Type typename='pog'"
      /\ out[4].text = "   4 | Variable name='x'"
      /\ out[2].views[3] = "(number,\"5\")"
      /\ result = out[1].text \o "\n" \o out[2].text \o "\n" \o out[3].text
                    \o "\n" \o out[4].text

\* C7 witness: the call on the example graph has returned
C7_Witness == pc = "returned" /\ heap = ExampleHeap /\ Len(out) > 0

\* C8: a further call on the unchanged graph returns the same string as the
\* call before it, its numbering starting at 1 again.
C8_Deterministic ==
    /\ (pc = "returned" /\ calls >= 2) => result = prev
    /\ (Discovered /\ calls >= 2) =>
         /\ tags[1] = 1
         /\ {tags[i] : i \in Tagged} = 1..Cardinality(Tagged)

\* C8 witness: the second call on a graph with a cycle has returned
C8_Witness ==
    /\ pc = "returned"
    /\ calls = 2
    /\ Len(heap) = 3
    /\ heap[2].vals = <<Ref(3)>> /\ heap[3].vals = <<Ref(2)>>
    /\ Len(out) = 3

\* The fields the node model documents for each variant
DocFields(cls) ==
    CASE cls = "Variable" -> <<"name", "mutable">>
      [] cls = "Function" -> <<"name", "parameterCount", "builtin">>
      [] cls = "Program" -> <<"statements">>
      [] cls = "VariableDeclaration" -> <<"type", "variable", "initializer">>
      [] cls = "Conditional" -> <<"test", "consequent", "alternate">>
      [] cls = "If" -> <<"condition", "block", "elseifs", "elseStatement">>
      [] cls = "ElseIf" -> <<"condition", "block">>
      [] cls = "Else" -> <<"block">>
      [] cls = "FunctionDeclaration" -> <<"type", "id", "params", "block">>
      [] cls = "FuncParam" -> <<"type", "id">>
      [] cls = "Assignment" -> <<"target", "source">>
      [] cls = "WhileStatement" -> <<"test", "body">>
      [] cls = "ReturnStatement" -> <<"value">>
      [] cls = "PrintStatement" -> <<"argument">>
      [] cls = "BreakStatement" -> <<>>
      [] cls = "Call" -> <<"callee", "args">>
      [] cls = "BinaryExpression" -> <<"op", "left", "right">>
      [] cls = "UnaryExpression" -> <<"op", "operand">>
      [] cls = "SubscriptExpression" -> <<"array", "index">>
      [] cls = "MemberExpression" -> <<"object", "field">>
      [] cls = "CringeArray" -> <<"values">>
      [] cls = "Token" -> <<"category", "source">>
      [] cls = "Type" -> <<"typename">>

\* C9: every constructor leaves exactly the documented fields, in order, with
\* the arguments it was given, and so every record of the standard library
\* holds name and mutable, or name, parameterCount and builtin.
C9_DocumentedFields ==
    /\ (made.cls \in PlainClasses /\ made.threw = "") =>
         LET obj == heap[made.ref] IN
           /\ obj.keys = DocFields(made.cls)
           /\ \A k \in 1..Len(obj.keys) : k <= Len(made.args) => obj.vals[k] = made.args[k]
    /\ \A name \in DOMAIN standardLibrary :
         LET rec == heap[standardLibrary[name]] IN
           IF name = "π"
           THEN /\ rec.keys = <<"name", "mutable">>
                /\ rec.vals = <<Str("π"), Bool(TRUE)>>
           ELSE /\ rec.keys = <<"name", "parameterCount", "builtin">>
                /\ rec.vals = <<Str(name), Num(IF name = "hypot" THEN 2 ELSE 1), Bool(TRUE)>>

\* Every reference to a node, in a field or in an array, of the lines yielded so far
NodeRefsOf(i) ==
    {v \in {heap[i].vals[k] : k \in 1..Len(heap[i].vals)} \cup
           UNION {{heap[i].vals[k].elems[e] : e \in 1..Len(heap[i].vals[k].elems)} :
                    k \in {n \in 1..Len(heap[i].vals) : heap[i].vals[n].t = "arr"}} :
       IsNodeRef(v)}

BackRefsResolve ==
    /\ \A i \in Tagged : \A j \in Tagged : i # j => tags[i] # tags[j]
    /\ \A k \in 1..Len(out) : \A v \in NodeRefsOf(out[k].node) :
         /\ tags[v.id] \in 1..Size(tags)
         /\ pc = "returned" =>
              /\ tags[v.id] <= Len(out)
              /\ \A n \in 1..Len(out) : out[n].id = tags[v.id] <=> out[n].node = v.id
              /\ Cardinality(LinesOf(v.id)) = 1
    /\ \A k \in 1..Len(out) :
         LET vals == heap[out[k].node].vals IN
           \A f \in 1..Len(vals) :
              IsNodeRef(vals[f]) => out[k].views[f] = "#" \o ToString(tags[vals[f].id])

\* C10: no "#k" dangles: k is the tag of the node referred to, between 1 and
\* the number of lines, and exactly one line has that tag and is that node's;
\* the Map is injective throughout and does not change while lines are made.
C10_BackRefsNeverDangle ==
    /\ []BackRefsResolve
    /\ [][pc = "rendering" => tags' = tags]_vars

\* C10 witness: a back edge to the root and a node that is two statements
C10_Witness ==
    /\ pc = "returned"
    /\ Len(heap) = 3
    /\ heap[1].vals = <<Arr(<<Ref(2), Ref(2)>>)>>
    /\ heap[2].vals = <<Ref(1)>> /\ ~IsToken(2)
    /\ out[2].views = <<"#1">>

====
